---------------------------- MODULE Spec2Model ----------------------------
(***************************************************************************)
(* Model of the TokenGenerator of src/tokenizer.py (a lexer for a small    *)
(* BASIC-like language) and of the token table of src/tokens.py.           *)
(*                                                                         *)
(* A character is a one-element TLA+ string ("a", "1", "<"), the control   *)
(* characters are named (NUL, LF, CR, SP, TAB, QUOTE).  A Python str is a  *)
(* sequence of characters; positions are 0-based as in the code, so the    *)
(* character at Python index i of s is s[i + 1].                           *)
(***************************************************************************)
EXTENDS Integers, Sequences, FiniteSets, TLC

VARIABLES
    input,      \* the argument of TokenGenerator.__init__
    source,     \* self._source
    cur_pos,    \* self._cur_pos
    next_char,  \* self._next_char
    at_end,     \* self._at_end
    result,     \* outcome of the latest __next__ call (observation)
    tokens      \* tokens returned so far, in order (observation)

vars == <<input, source, cur_pos, next_char, at_end, result, tokens>>

-----------------------------------------------------------------------------
(* Characters *)

NUL   == "NUL"      \* "\0"
LF    == "LF"       \* "\n"
CR    == "CR"       \* "\r"
SP    == "SP"       \* " "
TAB   == "TAB"      \* "\t"
QUOTE == "QUOTE"    \* '"'
NoChar == ""        \* the empty str "" of line 51

Digits == {"0", "1", "2", "3", "4", "5", "6", "7", "8", "9"}

Letters ==
    {"A", "B", "C", "D", "E", "F", "G", "H", "I", "J", "K", "L", "M",
     "N", "O", "P", "Q", "R", "S", "T", "U", "V", "W", "X", "Y", "Z",
     "a", "b", "c", "d", "e", "f", "g", "h", "i", "j", "k", "l", "m",
     "n", "o", "p", "q", "r", "s", "t", "u", "v", "w", "x", "y", "z"}

\* str.isdigit, str.isalpha, str.isalnum on one character
isdigit(c) == c \in Digits
isalpha(c) == c \in Letters
isalnum(c) == isalpha(c) \/ isdigit(c)

\* the class [^\S\r\n] of the regular expression of line 76
IsHSpace(c) == c \in {SP, TAB}

-----------------------------------------------------------------------------
(* Python str primitives *)

Min(a, b) == IF a < b THEN a ELSE b
Max(a, b) == IF a > b THEN a ELSE b

\* s[a:b] for a >= 0; a negative b counts from the end
PySlice(s, a, b) ==
    LET n  == Len(s)
        hi == IF b < 0 THEN Max(n + b, 0) ELSE Min(b, n)
    IN  SubSeq(s, Min(a, n) + 1, hi)

\* s.find(c, from): the least index >= from holding c, else -1
PyFind(s, c, from) ==
    LET hits == {i \in from..(Len(s) - 1) : s[i + 1] = c}
    IN  IF hits = {} THEN -1
        ELSE CHOOSE i \in hits : \A j \in hits : i <= j

-----------------------------------------------------------------------------
(* src/tokens.py *)

\* class TokenType, in definition order; name is the member's name as a str
TokenType == <<
    [kind |-> "EOF",      name |-> <<"E","O","F">>,                  value |-> -1],
    [kind |-> "NEWLINE",  name |-> <<"N","E","W","L","I","N","E">>,  value |-> 0],
    [kind |-> "NUMBER",   name |-> <<"N","U","M","B","E","R">>,      value |-> 1],
    [kind |-> "IDENT",    name |-> <<"I","D","E","N","T">>,          value |-> 2],
    [kind |-> "STRING",   name |-> <<"S","T","R","I","N","G">>,      value |-> 3],
    [kind |-> "LABEL",    name |-> <<"L","A","B","E","L">>,          value |-> 101],
    [kind |-> "GOTO",     name |-> <<"G","O","T","O">>,              value |-> 102],
    [kind |-> "PRINT",    name |-> <<"P","R","I","N","T">>,          value |-> 103],
    [kind |-> "INPUT",    name |-> <<"I","N","P","U","T">>,          value |-> 104],
    [kind |-> "LET",      name |-> <<"L","E","T">>,                  value |-> 105],
    [kind |-> "IF",       name |-> <<"I","F">>,                      value |-> 106],
    [kind |-> "THEN",     name |-> <<"T","H","E","N">>,              value |-> 107],
    [kind |-> "ENDIF",    name |-> <<"E","N","D","I","F">>,          value |-> 108],
    [kind |-> "WHILE",    name |-> <<"W","H","I","L","E">>,          value |-> 109],
    [kind |-> "REPEAT",   name |-> <<"R","E","P","E","A","T">>,      value |-> 110],
    [kind |-> "ENDWHILE", name |-> <<"E","N","D","W","H","I","L","E">>, value |-> 111],
    [kind |-> "EQ",       name |-> <<"E","Q">>,                      value |-> 201],
    [kind |-> "PLUS",     name |-> <<"P","L","U","S">>,              value |-> 202],
    [kind |-> "MINUS",    name |-> <<"M","I","N","U","S">>,          value |-> 203],
    [kind |-> "STAR",     name |-> <<"S","T","A","R">>,              value |-> 204],
    [kind |-> "SLASH",    name |-> <<"S","L","A","S","H">>,          value |-> 205],
    [kind |-> "EQEQ",     name |-> <<"E","Q","E","Q">>,              value |-> 206],
    [kind |-> "NOTEQ",    name |-> <<"N","O","T","E","Q">>,          value |-> 207],
    [kind |-> "LT",       name |-> <<"L","T">>,                      value |-> 208],
    [kind |-> "LTEQ",     name |-> <<"L","T","E","Q">>,              value |-> 209],
    [kind |-> "GT",       name |-> <<"G","T">>,                      value |-> 210],
    [kind |-> "GTEQ",     name |-> <<"G","T","E","Q">>,              value |-> 211] >>

\* TOKEN_TYPES with one more item, "!" alone
TOKEN_TYPES_with_bang == {
    <<<<"+">>, "PLUS">>,
    <<<<"-">>, "MINUS">>,
    <<<<"*">>, "STAR">>,
    <<<<"/">>, "SLASH">>,
    <<<<"<">>, "LT">>,
    <<<<">">>, "GT">>,
    <<<<"<", "=">>, "LTEQ">>,
    <<<<">", "=">>, "GTEQ">>,
    <<<<"=">>, "EQ">>,
    <<<<"=", "=">>, "EQEQ">>,
    <<<<"!">>, "NOTEQ">>,
    <<<<"!", "=">>, "NOTEQ">> }

\* the dict TOKEN_TYPES, as the set of its items
TOKEN_TYPES == {
    <<<<"+">>, "PLUS">>,
    <<<<"-">>, "MINUS">>,
    <<<<"*">>, "STAR">>,
    <<<<"/">>, "SLASH">>,
    <<<<"<">>, "LT">>,
    <<<<">">>, "GT">>,
    <<<<"<", "=">>, "LTEQ">>,
    <<<<">", "=">>, "GTEQ">>,
    <<<<"=">>, "EQ">>,
    <<<<"=", "=">>, "EQEQ">>,
    <<<<"!", "=">>, "NOTEQ">> }

\* key in TOKEN_TYPES (absence is the KeyError of lines 195 and 199)
HasKey(key) == \E item \in TOKEN_TYPES : item[1] = key

\* TOKEN_TYPES[key]
Lookup(key) == (CHOOSE item \in TOKEN_TYPES : item[1] = key)[2]

-----------------------------------------------------------------------------
(* class Token *)

\* None, as a kind; NoToken is the None a rule returns in place of a Token
None == "None"

Token(tokenText, tokenKind) == [text |-> tokenText, kind |-> tokenKind]

NoToken == Token(<<>>, None)

\* check_if_keyword without the test of the value band
check_if_keyword_any_band(token_text) ==
    LET hits == {i \in DOMAIN TokenType : TokenType[i].name = token_text}
    IN  IF hits = {} THEN None
        ELSE TokenType[CHOOSE i \in hits : \A j \in hits : i <= j].kind

\* Token.check_if_keyword: the first member, in definition order, whose name
\* is token_text and whose value lies in the band 100..199
check_if_keyword(token_text) ==
    LET hits == {i \in DOMAIN TokenType :
                    /\ TokenType[i].name = token_text
                    /\ TokenType[i].value >= 100
                    /\ TokenType[i].value < 200}
    IN  IF hits = {} THEN None
        ELSE TokenType[CHOOSE i \in hits : \A j \in hits : i <= j].kind

-----------------------------------------------------------------------------
(* TokenGenerator: construction *)

\* _remove_whitespace: regex.sub over  "[^"]*"|([^\S\r\n]+) , left to right
\* from index i.  A quote that has a later quote starts a match of the
\* first alternative, which is kept; a character of [^\S\r\n] belongs to a
\* match of group 1, which is replaced by ""; any other character is not
\* matched and is kept.
RECURSIVE RemoveWhitespaceFrom(_, _)
RemoveWhitespaceFrom(s, i) ==
    IF i >= Len(s) THEN <<>>
    ELSE LET c == s[i + 1]
             close == PyFind(s, QUOTE, i + 1)
         IN  IF c = QUOTE /\ close >= 0
                 THEN PySlice(s, i, close + 1) \o RemoveWhitespaceFrom(s, close + 1)
             ELSE IF IsHSpace(c)
                 THEN RemoveWhitespaceFrom(s, i + 1)
             ELSE <<c>> \o RemoveWhitespaceFrom(s, i + 1)

_remove_whitespace(s) == RemoveWhitespaceFrom(s, 0)

\* s[i:i+2] == "/*"  and  s[j:j+2] == "*/"
IsOpen(s, i)  == i + 1 < Len(s) /\ s[i + 1] = "/" /\ s[i + 2] = "*"
IsClose(s, j) == j + 1 < Len(s) /\ s[j + 1] = "*" /\ s[j + 2] = "/"

\* the indices j at which  \*\/  can end a match of  \/\*.*\*\/  that starts
\* at i: "." matches any character but "\n"
CommentCloses(s, i) ==
    {j \in (i + 2)..(Len(s) - 2) :
        /\ IsClose(s, j)
        /\ \A k \in (i + 2)..(j - 1) : s[k + 1] # LF}

\* _remove_comments: re.sub of  \/\*.*\*\/  by "", left to right from index
\* i; ".*" is greedy, so a match that starts at i ends at the last close
RECURSIVE RemoveCommentsFrom(_, _)
RemoveCommentsFrom(s, i) ==
    IF i >= Len(s) THEN <<>>
    ELSE LET closes == CommentCloses(s, i)
         IN  IF IsOpen(s, i) /\ closes # {}
                 THEN LET j == CHOOSE x \in closes : \A y \in closes : y <= x
                      IN  RemoveCommentsFrom(s, j + 2)
             ELSE <<s[i + 1]>> \o RemoveCommentsFrom(s, i + 1)

_remove_comments(s) == RemoveCommentsFrom(s, 0)

\* the value of self._source after __init__ (lines 48-49)
Normalize(s) == _remove_comments(_remove_whitespace(s))

-----------------------------------------------------------------------------
(***************************************************************************)
(* TokenGenerator: the classification rules.  Each rule takes the source,  *)
(* the cursor and the current character and yields                         *)
(*    [tok |-> a Token or None, pos |-> the cursor it leaves,              *)
(*     raised |-> whether it raised ValueError].                           *)
(***************************************************************************)

Miss(pos)       == [tok |-> NoToken, pos |-> pos, raised |-> FALSE]
Hit(tok, pos)   == [tok |-> tok,  pos |-> pos, raised |-> FALSE]
Raise(pos)      == [tok |-> NoToken, pos |-> pos, raised |-> TRUE]

\* _peek: self._source[self._cur_pos + 1], "\0" on IndexError
_peek(src, pos) == IF pos + 1 < Len(src) THEN src[pos + 2] ELSE NUL

\* while self._peek().isdigit(): self._cur_pos += 1
RECURSIVE SkipDigits(_, _)
SkipDigits(src, pos) ==
    IF isdigit(_peek(src, pos)) THEN SkipDigits(src, pos + 1) ELSE pos

\* while self._peek().isalnum(): self._cur_pos += 1
RECURSIVE SkipAlnum(_, _)
SkipAlnum(src, pos) ==
    IF isalnum(_peek(src, pos)) THEN SkipAlnum(src, pos + 1) ELSE pos

\* _get_number with the slice self._source[start_pos: self._cur_pos]
get_number_short_slice(src, pos, cur_char) ==
    IF ~isdigit(cur_char) THEN Miss(pos)
    ELSE LET start_pos == pos
             p1 == SkipDigits(src, pos)
         IN  IF _peek(src, p1) = "."
                 THEN IF ~isdigit(_peek(src, p1 + 1))
                          THEN Raise(p1 + 1)
                      ELSE LET p2 == SkipDigits(src, p1 + 1)
                           IN  Hit(Token(PySlice(src, start_pos, p2), "NUMBER"), p2)
             ELSE Hit(Token(PySlice(src, start_pos, p1), "NUMBER"), p1)

\* _get_number without the check of line 110
get_number_no_raise(src, pos, cur_char) ==
    IF ~isdigit(cur_char) THEN Miss(pos)
    ELSE LET start_pos == pos
             p1 == SkipDigits(src, pos)
         IN  IF _peek(src, p1) = "."
                 THEN LET p2 == SkipDigits(src, p1 + 1)
                      IN  Hit(Token(PySlice(src, start_pos, p2 + 1), "NUMBER"), p2)
             ELSE Hit(Token(PySlice(src, start_pos, p1 + 1), "NUMBER"), p1)

_get_number(src, pos, cur_char) ==
    IF ~isdigit(cur_char) THEN Miss(pos)
    ELSE LET start_pos == pos
             p1 == SkipDigits(src, pos)
         IN  IF _peek(src, p1) = "."
                 THEN IF ~isdigit(_peek(src, p1 + 1))
                          THEN Raise(p1 + 1)
                      ELSE LET p2 == SkipDigits(src, p1 + 1)
                           IN  Hit(Token(PySlice(src, start_pos, p2 + 1), "NUMBER"), p2)
             ELSE Hit(Token(PySlice(src, start_pos, p1 + 1), "NUMBER"), p1)

_get_ident_or_keyword(src, pos, cur_char) ==
    IF ~isalpha(cur_char) THEN Miss(pos)
    ELSE LET start_pos == pos
             p1       == SkipAlnum(src, pos)
             tok_text == PySlice(src, start_pos, p1 + 1)
             keyword  == check_if_keyword(tok_text)
         IN  IF keyword # None
                 THEN Hit(Token(tok_text, keyword), p1)
             ELSE Hit(Token(tok_text, "IDENT"), p1)

\* _get_string with self._cur_pos = string_end in place of line 154
get_string_jump_to_end(src, pos, cur_char) ==
    IF cur_char # QUOTE THEN Miss(pos)
    ELSE LET string_end   == PyFind(src, QUOTE, pos + 1)
             string_token == PySlice(src, pos + 1, string_end)
         IN  Hit(Token(string_token, "STRING"), string_end)

\* _get_string with self._cur_pos += len(string_token) in place of line 154
get_string_stops_at_quote(src, pos, cur_char) ==
    IF cur_char # QUOTE THEN Miss(pos)
    ELSE LET string_end   == PyFind(src, QUOTE, pos + 1)
             string_token == PySlice(src, pos + 1, string_end)
         IN  Hit(Token(string_token, "STRING"), pos + Len(string_token))

_get_string(src, pos, cur_char) ==
    IF cur_char # QUOTE THEN Miss(pos)
    ELSE LET string_end   == PyFind(src, QUOTE, pos + 1)
             string_token == PySlice(src, pos + 1, string_end)
         IN  Hit(Token(string_token, "STRING"), pos + Len(string_token) + 1)

_get_EOF(src, pos, cur_char) ==
    IF cur_char = NUL THEN Hit(Token(<<cur_char>>, "EOF"), pos) ELSE Miss(pos)

\* _get_newlines that takes the newlines that follow into the same token
RECURSIVE SkipNewlines(_, _)
SkipNewlines(src, pos) ==
    IF _peek(src, pos) = LF THEN SkipNewlines(src, pos + 1) ELSE pos

get_newlines_collapsing(src, pos, cur_char) ==
    IF <<cur_char>> \in {<<LF>>, <<CR, LF>>}
        THEN Hit(Token(<<cur_char>>, "NEWLINE"), SkipNewlines(src, pos))
    ELSE Miss(pos)

\* cur_char in ["\n", "\r\n"]: cur_char is one character, so it can equal
\* "\n" only
_get_newlines(src, pos, cur_char) ==
    IF <<cur_char>> \in {<<LF>>, <<CR, LF>>}
        THEN Hit(Token(<<cur_char>>, "NEWLINE"), pos)
    ELSE Miss(pos)

\* _is_operator with the one-character lookup tried first
is_operator_single_first(src, pos, cur_char) ==
    LET second_char == _peek(src, pos)
    IN  IF HasKey(<<cur_char>>)
            THEN Hit(Token(<<cur_char>>, Lookup(<<cur_char>>)), pos)
        ELSE IF HasKey(<<cur_char, second_char>>)
            THEN Hit(Token(<<cur_char, second_char>>,
                           Lookup(<<cur_char, second_char>>)), pos + 1)
        ELSE Miss(pos)

\* _is_operator that moves the cursor also when no operator is found
is_operator_advance_on_miss(src, pos, cur_char) ==
    LET second_char == _peek(src, pos)
    IN  IF HasKey(<<cur_char, second_char>>)
            THEN Hit(Token(<<cur_char, second_char>>,
                           Lookup(<<cur_char, second_char>>)), pos + 1)
        ELSE IF HasKey(<<cur_char>>)
            THEN Hit(Token(<<cur_char>>, Lookup(<<cur_char>>)), pos)
        ELSE Miss(pos + 1)

\* _is_operator without the self._cur_pos += 1 of line 193
is_operator_no_advance(src, pos, cur_char) ==
    LET second_char == _peek(src, pos)
    IN  IF HasKey(<<cur_char, second_char>>)
            THEN Hit(Token(<<cur_char, second_char>>,
                           Lookup(<<cur_char, second_char>>)), pos)
        ELSE IF HasKey(<<cur_char>>)
            THEN Hit(Token(<<cur_char>>, Lookup(<<cur_char>>)), pos)
        ELSE Miss(pos)

_is_operator(src, pos, cur_char) ==
    LET second_char == _peek(src, pos)
    IN  IF HasKey(<<cur_char, second_char>>)
            THEN Hit(Token(<<cur_char, second_char>>,
                           Lookup(<<cur_char, second_char>>)), pos + 1)
        ELSE IF HasKey(<<cur_char>>)
            THEN Hit(Token(<<cur_char>>, Lookup(<<cur_char>>)), pos)
        ELSE Miss(pos)

\* _get_next_token: the rules in the order of lexing_strats; the first one
\* that returns a token (or raises) ends the loop, the for-else raises
\* ValueError("Lexing Error! ...").  msg tells the two ValueErrors apart.
_get_next_token(src, pos, cur_char) ==
    LET s1 == _get_number(src, pos, cur_char)
        s2 == _get_ident_or_keyword(src, pos, cur_char)
        s3 == _get_EOF(src, pos, cur_char)
        s4 == _get_newlines(src, pos, cur_char)
        s5 == _get_string(src, pos, cur_char)
        s6 == _is_operator(src, pos, cur_char)
        ok(r)  == [tok |-> r.tok, pos |-> r.pos, raised |-> FALSE,
                   msg |-> "", char |-> NoChar]
    IN  IF s1.raised
            THEN [tok |-> NoToken, pos |-> s1.pos, raised |-> TRUE,
                  msg |-> "Illegal character in number!", char |-> NoChar]
        ELSE IF s1.tok # NoToken THEN ok(s1)
        ELSE IF s2.tok # NoToken THEN ok(s2)
        ELSE IF s3.tok # NoToken THEN ok(s3)
        ELSE IF s4.tok # NoToken THEN ok(s4)
        ELSE IF s5.tok # NoToken THEN ok(s5)
        ELSE IF s6.tok # NoToken THEN ok(s6)
        ELSE [tok |-> NoToken, pos |-> s6.pos, raised |-> TRUE,
              msg |-> "Lexing Error! Character not recognized", char |-> cur_char]

\* lines 236-239: self._source[self._cur_pos], "\0" on IndexError
CurChar(src, pos) == IF pos < Len(src) THEN src[pos + 1] ELSE NUL

-----------------------------------------------------------------------------
(***************************************************************************)
(* Bounds and inputs.  The argument of the constructor is drawn from four  *)
(* families: every string up to MaxLen over CoreChars (numbers, names,     *)
(* strings, newlines, NUL and an operator), every string up to MaxSymLen   *)
(* over SymbolChars (all operator characters and characters no rule        *)
(* claims), every string up to MaxWordLen over WordChars (keywords and     *)
(* near-keywords), and every concatenation of up to MaxFrags Fragments     *)
(* (comments, quotes and blanks).                                          *)
(***************************************************************************)

MaxLen     == 4     \* longest input over CoreChars
MaxSymLen  == 3     \* longest input over SymbolChars
MaxWordLen == 4     \* longest input over WordChars
MaxFrags   == 5     \* most fragments in an input built of Fragments

CoreChars   == {"1", ".", "a", LF, QUOTE, "=", NUL}
SymbolChars == {"+", "-", "*", "/", "<", ">", "=", "!", "(", CR, LF, TAB}
WordChars   == {"I", "F", "E", "O", "f", "1"}
Fragments   == {<<"/", "*">>, <<"*", "/">>, <<QUOTE>>, <<SP>>, <<"a">>, <<LF>>}

StringsUpTo(S, n) == UNION {[1..k -> S] : k \in 0..n}

RECURSIVE Flatten(_)
Flatten(ss) == IF ss = <<>> THEN <<>> ELSE Head(ss) \o Flatten(Tail(ss))

Inputs ==
    StringsUpTo(CoreChars, MaxLen)
    \cup StringsUpTo(SymbolChars, MaxSymLen)
    \cup StringsUpTo(WordChars, MaxWordLen)
    \cup {Flatten(fs) : fs \in StringsUpTo(Fragments, MaxFrags)}

-----------------------------------------------------------------------------
(* The state machine *)

NoResult == [kind |-> "none", tok |-> NoToken, start |-> 0,
             msg |-> "", char |-> NoChar]

\* TokenGenerator.__init__
Init ==
    /\ input \in Inputs
    /\ source = Normalize(input)
    /\ cur_pos = 0
    /\ next_char = NoChar
    /\ at_end = FALSE
    /\ result = NoResult
    /\ tokens = <<>>

\* __next__, lines 228-229: raise StopIteration
next_StopIteration ==
    /\ at_end
    /\ result' = [kind |-> "StopIteration", tok |-> NoToken, start |-> cur_pos,
                  msg |-> "", char |-> NoChar]
    /\ UNCHANGED <<input, source, cur_pos, next_char, at_end, tokens>>

\* next_Token without the self._cur_pos += 1 of line 242
next_Token_no_advance ==
    /\ ~at_end
    /\ LET r == _get_next_token(source, cur_pos, CurChar(source, cur_pos))
       IN  /\ ~r.raised
           /\ at_end' = (next_char = NUL)
           /\ next_char' = _peek(source, r.pos)
           /\ cur_pos' = r.pos
           /\ result' = [kind |-> "token", tok |-> r.tok, start |-> cur_pos,
                         msg |-> "", char |-> NoChar]
           /\ tokens' = Append(tokens, [text |-> r.tok.text, kind |-> r.tok.kind,
                                        start |-> cur_pos])
    /\ UNCHANGED <<input, source>>

\* __next__, lines 232-243, when _get_next_token returns a token
next_Token ==
    /\ ~at_end
    /\ LET r == _get_next_token(source, cur_pos, CurChar(source, cur_pos))
       IN  /\ ~r.raised
           /\ at_end' = (next_char = NUL)
           /\ next_char' = _peek(source, r.pos)
           /\ cur_pos' = r.pos + 1
           /\ result' = [kind |-> "token", tok |-> r.tok, start |-> cur_pos,
                         msg |-> "", char |-> NoChar]
           /\ tokens' = Append(tokens, [text |-> r.tok.text, kind |-> r.tok.kind,
                                        start |-> cur_pos])
    /\ UNCHANGED <<input, source>>

\* next_ValueError that steps over the character it stopped at
next_ValueError_skipping ==
    /\ ~at_end
    /\ LET r == _get_next_token(source, cur_pos, CurChar(source, cur_pos))
       IN  /\ r.raised
           /\ at_end' = (next_char = NUL)
           /\ cur_pos' = r.pos + 1
           /\ result' = [kind |-> "ValueError", tok |-> NoToken, start |-> cur_pos,
                         msg |-> r.msg, char |-> r.char]
    /\ UNCHANGED <<input, source, next_char, tokens>>

\* __next__, lines 232-240, when _get_next_token raises ValueError: the
\* assignments made before the raise stay
next_ValueError ==
    /\ ~at_end
    /\ LET r == _get_next_token(source, cur_pos, CurChar(source, cur_pos))
       IN  /\ r.raised
           /\ at_end' = (next_char = NUL)
           /\ cur_pos' = r.pos
           /\ result' = [kind |-> "ValueError", tok |-> NoToken, start |-> cur_pos,
                         msg |-> r.msg, char |-> r.char]
    /\ UNCHANGED <<input, source, next_char, tokens>>

__next__ == next_StopIteration \/ next_Token \/ next_ValueError

Next == __next__

Spec == Init /\ [][Next]_vars

\* the consumer of lines 269-270 (list over the generator) goes on calling
\* __next__ for as long as a call can be made
FairSpec == Spec /\ WF_vars(Next)

-----------------------------------------------------------------------------
(* Iteration to completion *)

\* list(TokenGenerator(input)), lines 269-270: __next__ is called until it
\* raises; toks are the tokens returned, end tells how the iteration ended
RECURSIVE Iterate(_, _, _, _, _)
Iterate(src, pos, nc, ae, toks) ==
    IF ae THEN [toks |-> toks, end |-> "StopIteration", char |-> NoChar]
    ELSE LET r == _get_next_token(src, pos, CurChar(src, pos))
         IN  IF r.raised THEN [toks |-> toks, end |-> r.msg, char |-> r.char]
             ELSE Iterate(src, r.pos + 1, _peek(src, r.pos), nc = NUL,
                          Append(toks, r.tok))

Tokenize(s) == Iterate(Normalize(s), 0, NoChar, FALSE, <<>>)

-----------------------------------------------------------------------------
(* Vocabulary of the properties *)

\* the current character and the lookahead of the call about to be made
Cur       == CurChar(source, cur_pos)
Lookahead == IF cur_pos + 1 < Len(source) THEN source[cur_pos + 2] ELSE NUL

\* a call that is not refused as exhausted dispatches Cur through the rules
Dispatches == ~at_end

Returned(tok)   == result.kind = "token" /\ result.tok = tok
ReturnedNothing == result.kind # "token" /\ result.tok = NoToken
KindsSoFar      == {tokens[k].kind : k \in DOMAIN tokens}

\* the last index q >= p of the maximal run of characters of Class that
\* starts at index p of src (src[p] is in Class)
RunEnd(src, p, Class) ==
    CHOOSE q \in p..(Len(src) - 1) :
        /\ \A k \in p..q : src[k + 1] \in Class
        /\ q + 1 < Len(src) => src[q + 2] \notin Class

\* src[p..q], both ends included
Span(src, p, q) == [k \in 1..(q - p + 1) |-> src[p + k]]

\* the operator spellings of the language and their kinds
TwoCharOperators ==
    {<<"<", "=", "LTEQ">>, <<">", "=", "GTEQ">>,
     <<"=", "=", "EQEQ">>, <<"!", "=", "NOTEQ">>}
OneCharOperators ==
    {<<"+", "PLUS">>, <<"-", "MINUS">>, <<"*", "STAR">>, <<"/", "SLASH">>,
     <<"<", "LT">>, <<">", "GT">>, <<"=", "EQ">>}

IsTwoCharOp(c, d) == \E op \in TwoCharOperators : op[1] = c /\ op[2] = d
IsOneCharOp(c)    == \E op \in OneCharOperators : op[1] = c

\* the keyword spellings of the language
KeywordKinds ==
    {"LABEL", "GOTO", "PRINT", "INPUT", "LET", "IF", "THEN", "ENDIF",
     "WHILE", "REPEAT", "ENDWHILE"}
Keywords == {<<TokenType[i].name, TokenType[i].kind>> :
                i \in {j \in DOMAIN TokenType : TokenType[j].kind \in KeywordKinds}}

-----------------------------------------------------------------------------
(* C1 *)

\* C1: once a call has returned an EOF token, every later call raises
\* StopIteration and returns no token, so that one EOF token at most is ever
\* returned.
C1_AfterEOFOnlyStopIteration ==
    [][ "EOF" \in KindsSoFar =>
            /\ result'.kind = "StopIteration"
            /\ tokens' = tokens ]_vars

-----------------------------------------------------------------------------
(* C2 *)

\* C2: a dispatching call whose current character and lookahead spell a
\* two-character operator returns that one operator and moves the cursor
\* past both characters; otherwise, one whose current character spells a
\* one-character operator returns it and moves the cursor past it; and a
\* source that is one operator character yields that operator, then EOF.
C2_OperatorMaximalMunch ==
    [][ Dispatches =>
          /\ \A op \in TwoCharOperators :
                (Cur = op[1] /\ Lookahead = op[2]) =>
                    /\ result'.kind = "token"
                    /\ result'.tok = Token(<<op[1], op[2]>>, op[3])
                    /\ tokens' = Append(tokens, [text |-> <<op[1], op[2]>>,
                                                 kind |-> op[3], start |-> cur_pos])
                    /\ cur_pos' = cur_pos + 2
          /\ \A op \in OneCharOperators :
                (Cur = op[1] /\ ~IsTwoCharOp(Cur, Lookahead)) =>
                    /\ result'.kind = "token"
                    /\ result'.tok = Token(<<op[1]>>, op[2])
                    /\ tokens' = Append(tokens, [text |-> <<op[1]>>,
                                                 kind |-> op[2], start |-> cur_pos])
                    /\ cur_pos' = cur_pos + 1
          /\ \A op \in OneCharOperators :
                (source = <<op[1]>> /\ Len(tokens) = 1) =>
                    /\ tokens[1].kind = op[2]
                    /\ result'.kind = "token"
                    /\ result'.tok.kind = "EOF"
                    /\ Len(tokens') = 2 ]_vars

\* "<=" has just been returned as one LTEQ token
C2_Witness ==
    /\ Returned(Token(<<"<", "=">>, "LTEQ"))
    /\ cur_pos = result.start + 2

-----------------------------------------------------------------------------
(* C3 *)

\* C3: a dispatching call whose current character is a letter returns a token
\* whose text is the whole maximal run of alphanumeric characters that
\* starts there; its kind is the keyword kind when the text is exactly a
\* keyword spelling and IDENT in every other case.
C3_KeywordOrIdentifier ==
    [][ (Dispatches /\ Cur \in Letters) =>
          LET text == Span(source, cur_pos,
                           RunEnd(source, cur_pos, Letters \cup Digits))
          IN  /\ result'.kind = "token"
              /\ result'.tok.text = text
              /\ \A kw \in Keywords : text = kw[1] => result'.tok.kind = kw[2]
              /\ (\A kw \in Keywords : text # kw[1]) => result'.tok.kind = "IDENT"
              /\ cur_pos' = cur_pos + Len(text) ]_vars

\* the run IF has been returned as the keyword IF
C3_Witness ==
    /\ source = <<"I", "F">>
    /\ Returned(Token(<<"I", "F">>, "IF"))
    /\ cur_pos = 2

-----------------------------------------------------------------------------
(* C4, C5 *)

\* the character at index i of the source, NUL past its end
SourceAt(i) == IF i < Len(source) THEN source[i + 1] ELSE NUL

\* the last index of the digits that start at the cursor
IntegerEnd == RunEnd(source, cur_pos, Digits)

\* the digits at the cursor are followed by "." and a digit
HasFraction == SourceAt(IntegerEnd + 1) = "." /\ SourceAt(IntegerEnd + 2) \in Digits

\* the digits at the cursor are followed by "." and no digit
DanglingPoint == SourceAt(IntegerEnd + 1) = "." /\ SourceAt(IntegerEnd + 2) \notin Digits

\* C4: a dispatching call whose current character is a digit returns, unless
\* the number is malformed, a NUMBER whose text is the maximal run of digits
\* that starts there, extended, when "." and a digit follow it, by the "."
\* and the maximal run of digits after it, and by nothing more.
C4_NumberLexeme ==
    [][ (Dispatches /\ Cur \in Digits /\ ~DanglingPoint) =>
          LET last == IF HasFraction
                          THEN RunEnd(source, IntegerEnd + 2, Digits)
                      ELSE IntegerEnd
          IN  /\ result'.kind = "token"
              /\ result'.tok = Token(Span(source, cur_pos, last), "NUMBER")
              /\ cur_pos' = last + 1 ]_vars

\* "1.1" has been returned as a NUMBER from a source that goes on with "."
C4_Witness ==
    /\ source = <<"1", ".", "1", ".">>
    /\ Returned(Token(<<"1", ".", "1">>, "NUMBER"))

\* C5: a dispatching call whose current character is a digit fails with the
\* malformed-number error, and returns no token, when the run of digits
\* that starts there is followed by a "." that no digit follows.
C5_MalformedNumber ==
    [][ (Dispatches /\ Cur \in Digits /\ DanglingPoint) =>
          /\ result'.kind = "ValueError"
          /\ result'.msg = "Illegal character in number!"
          /\ result'.tok = NoToken
          /\ tokens' = tokens ]_vars

\* the call on "1." has failed with the malformed-number error
C5_Witness ==
    /\ source = <<"1", ".">>
    /\ result.kind = "ValueError"
    /\ result.msg = "Illegal character in number!"
    /\ tokens = <<>>

-----------------------------------------------------------------------------
(* C6 *)

\* no quote lies after the cursor
NoClosingQuote == \A k \in (cur_pos + 1)..(Len(source) - 1) : source[k + 1] # QUOTE

\* C6: a dispatching call whose current character is a quote that no later
\* quote closes fails with an error and returns no token.
C6_UnterminatedStringFails ==
    [][ (Dispatches /\ Cur = QUOTE /\ NoClosingQuote) =>
          /\ result'.kind = "ValueError"
          /\ tokens' = tokens ]_vars

-----------------------------------------------------------------------------
(* C7 *)

\* s with the character c inserted before index p
InsertAt(s, p, c) == SubSeq(s, 1, p) \o <<c>> \o SubSeq(s, p + 1, Len(s))

\* the first index at which a block comment that opens at index i of s
\* closes on the same line, -1 when s[i:i+2] opens no such comment
FirstClose(s, i) ==
    IF IsOpen(s, i) /\ CommentCloses(s, i) # {}
        THEN CHOOSE j \in CommentCloses(s, i) : \A k \in CommentCloses(s, i) : j <= k
    ELSE -1

\* the set of indices p of s, from index i on, such that the place before
\* s[p] (p = Len(s): the end) lies outside string literals and outside
\* single-line block comments; a quote that no quote closes starts a
\* literal that runs to the end
RECURSIVE PlainPlaces(_, _)
PlainPlaces(s, i) ==
    IF i >= Len(s) THEN {Len(s)}
    ELSE IF FirstClose(s, i) >= 0
        THEN {i} \cup PlainPlaces(s, FirstClose(s, i) + 2)
    ELSE IF s[i + 1] = QUOTE
        THEN IF PyFind(s, QUOTE, i + 1) >= 0
                 THEN {i} \cup PlainPlaces(s, PyFind(s, QUOTE, i + 1) + 1)
             ELSE {i}
    ELSE {i} \cup PlainPlaces(s, i + 1)

\* the number of quotes of s before index i
QuotesBefore(s, i) == Cardinality({k \in 0..(i - 1) : s[k + 1] = QUOTE})

\* C7: a space or a tab inserted into the input outside string literals
\* (and outside comments) does not change the tokens the iteration yields
\* nor how it ends, and the source the lexer holds has no space or tab
\* outside string literals.
C7_WhitespaceInsignificant ==
    /\ \A p \in PlainPlaces(input, 0) : \A w \in {SP, TAB} :
            Tokenize(InsertAt(input, p, w)) = Tokenize(input)
    /\ \A i \in 0..(Len(source) - 1) :
            source[i + 1] \in {SP, TAB} => QuotesBefore(source, i) % 2 = 1

-----------------------------------------------------------------------------
(* C8 *)

\* s, from index i on, without its single-line block comments: each runs
\* from a "/*" to its first "*/" on the same line
RECURSIVE StripLineComments(_, _)
StripLineComments(s, i) ==
    IF i >= Len(s) THEN <<>>
    ELSE IF FirstClose(s, i) >= 0
        THEN StripLineComments(s, FirstClose(s, i) + 2)
    ELSE <<s[i + 1]>> \o StripLineComments(s, i + 1)

\* C8: the input yields the same tokens, and ends the same way, as the input
\* with each of its single-line block comments deleted.
C8_CommentsInsignificant ==
    Tokenize(input) = Tokenize(StripLineComments(input, 0))

-----------------------------------------------------------------------------
(* C9 *)

\* the indices below the cursor at which the source holds a newline outside
\* string literals
NewlinesPassed ==
    {i \in 0..(Min(cur_pos, Len(source)) - 1) :
        source[i + 1] = LF /\ QuotesBefore(source, i) % 2 = 0}

\* every newline passed has one NEWLINE token, every NEWLINE token is a
\* newline passed, and the tokens are in source order
NewlinesAccounted ==
    /\ \A i \in NewlinesPassed :
          Cardinality({k \in DOMAIN tokens :
                          tokens[k].kind = "NEWLINE" /\ tokens[k].start = i}) = 1
    /\ \A k \in DOMAIN tokens :
          tokens[k].kind = "NEWLINE" =>
              tokens[k].start \in NewlinesPassed /\ tokens[k].text = <<LF>>
    /\ \A j, k \in DOMAIN tokens : j < k => tokens[j].start < tokens[k].start

\* C9: a dispatching call whose current character is a newline returns one
\* NEWLINE token for that newline alone, and at every moment the newlines
\* of the source outside string literals that the cursor has passed have
\* one NEWLINE token each, in source order among the other tokens.
C9_NewlineTokens ==
    [][ /\ (Dispatches /\ Cur = LF) =>
              /\ result'.kind = "token"
              /\ result'.tok = Token(<<LF>>, "NEWLINE")
              /\ cur_pos' = cur_pos + 1
        /\ NewlinesAccounted' ]_vars

\* two consecutive newlines between two identifiers have been returned as
\* two NEWLINE tokens
C9_Witness ==
    /\ source = <<"a", LF, LF, "a">>
    /\ [k \in DOMAIN tokens |-> tokens[k].kind]
           = <<"IDENT", "NEWLINE", "NEWLINE", "IDENT", "EOF">>

-----------------------------------------------------------------------------
(* C10 *)

\* no rule claims the character c with lookahead d
Unrecognized(c, d) ==
    /\ c \notin Digits
    /\ c \notin Letters
    /\ c \notin {NUL, LF, QUOTE}
    /\ ~IsTwoCharOp(c, d)
    /\ ~IsOneCharOp(c)

\* C10: a dispatching call whose current character no rule claims fails with
\* the unrecognized-character error, which carries that character, and
\* returns no token.
C10_UnrecognizedCharacter ==
    [][ (Dispatches /\ Unrecognized(Cur, Lookahead)) =>
          /\ result'.kind = "ValueError"
          /\ result'.msg = "Lexing Error! Character not recognized"
          /\ result'.char = Cur
          /\ result'.tok = NoToken
          /\ tokens' = tokens
          /\ cur_pos' = cur_pos ]_vars

\* the call on "!" followed by "(" has failed and reports "!"
C10_Witness ==
    /\ source = <<"!", "(">>
    /\ result.kind = "ValueError"
    /\ result.msg = "Lexing Error! Character not recognized"
    /\ result.char = "!"
    /\ tokens = <<>>

-----------------------------------------------------------------------------
(* C11 *)

\* C11: once a call has failed with a lexing error (ValueError), every later
\* call fails with a lexing error again: it returns no token and the cursor
\* stays where the failure left it.
C11_LexingErrorIsTerminal ==
    [][ result.kind = "ValueError" =>
          /\ result'.kind = "ValueError"
          /\ result'.tok = NoToken
          /\ tokens' = tokens
          /\ cur_pos' = cur_pos ]_vars

\* the call after the malformed-number failure on "1." has failed again, on
\* the "." the cursor was left at
C11_Witness ==
    /\ source = <<"1", ".">>
    /\ result.kind = "ValueError"
    /\ result.msg = "Lexing Error! Character not recognized"
    /\ result.char = "."
    /\ result.start = 1
    /\ tokens = <<>>

-----------------------------------------------------------------------------
(* C12 *)

\* the kinds of the tokens returned so far, in order
KindsInOrder == [k \in DOMAIN tokens |-> tokens[k].kind]

\* C12: when the iteration has come to its end (StopIteration), the tokens
\* it has yielded hold no EOF token; for the source +-* they are PLUS, MINUS
\* and STAR and nothing else.
C12_IterationYieldsNoEOF ==
    result.kind = "StopIteration" =>
        /\ "EOF" \notin KindsSoFar
        /\ source = <<"+", "-", "*">> => KindsInOrder = <<"PLUS", "MINUS", "STAR">>

-----------------------------------------------------------------------------
(* C13 *)

\* every quote of the source is paired and the source holds no NUL
WellQuotedNoNUL ==
    /\ QuotesBefore(source, Len(source)) % 2 = 0
    /\ \A i \in 1..Len(source) : source[i] # NUL

\* the characters of the source a token stands for: its text, in quotes
\* for a STRING
Lexeme(tok) ==
    IF tok.kind = "STRING" THEN <<QUOTE>> \o tok.text \o <<QUOTE>> ELSE tok.text

\* the lexemes of the first n tokens, EOF tokens left out, one after the
\* other
RECURSIVE LexemesUpTo(_)
LexemesUpTo(n) ==
    IF n = 0 THEN <<>>
    ELSE IF tokens[n].kind = "EOF" THEN LexemesUpTo(n - 1)
    ELSE LexemesUpTo(n - 1) \o Lexeme(tokens[n])

\* C13: in a source whose quotes are paired and that holds no NUL, the call
\* that returned a token other than EOF left the cursor just past the
\* token's lexeme, which is the slice of the source from the cursor before
\* the call to the cursor after it; the first token starts at 0 and each
\* token starts where the lexeme of the one before ends; and an EOF token
\* is returned with no character of the source left, when the lexemes of
\* the tokens before it, one after the other, are the source.
C13_LexemesTileSource ==
    WellQuotedNoNUL =>
        /\ (result.kind = "token" /\ result.tok.kind # "EOF") =>
              /\ cur_pos = result.start + Len(Lexeme(result.tok))
              /\ cur_pos <= Len(source)
              /\ Lexeme(result.tok) = SubSeq(source, result.start + 1, cur_pos)
        /\ tokens # <<>> => tokens[1].start = 0
        /\ \A k \in DOMAIN tokens :
              tokens[k].kind # "EOF" =>
                  /\ Lexeme(tokens[k])
                        = SubSeq(source, tokens[k].start + 1,
                                 tokens[k].start + Len(Lexeme(tokens[k])))
                  /\ k < Len(tokens) =>
                        tokens[k + 1].start = tokens[k].start + Len(Lexeme(tokens[k]))
        /\ \A k \in DOMAIN tokens :
              tokens[k].kind = "EOF" =>
                  /\ tokens[k].start >= Len(source)
                  /\ LexemesUpTo(k) = source

\* a string, an operator and EOF have been returned from the source "a"=
C13_Witness ==
    /\ source = <<QUOTE, "a", QUOTE, "=">>
    /\ KindsInOrder = <<"STRING", "EQ", "EOF">>
    /\ cur_pos = 5

-----------------------------------------------------------------------------
(* C14 *)

\* C14: no call, whether it returns a token or fails, moves the cursor
\* back, and every call that returns a token moves it forward.
C14_CursorMonotonic ==
    [][ /\ cur_pos' >= cur_pos
        /\ result'.kind = "token" => cur_pos' > cur_pos ]_vars

\* the unterminated string "a has been returned as a token and the cursor
\* has moved forward; so has it after the EOF that follows
C14_Witness ==
    /\ source = <<QUOTE, "a">>
    /\ KindsInOrder = <<"STRING", "EOF">>
    /\ tokens[2].start > tokens[1].start
    /\ cur_pos > tokens[2].start

-----------------------------------------------------------------------------
(* C16 *)

\* C16: a dispatching call whose current character is a quote that a later
\* quote closes returns a STRING whose text is the characters strictly
\* between the two quotes, none for "", and leaves the cursor on the
\* character right after the closing quote.
C16_StringLiteral ==
    [][ (Dispatches /\ Cur = QUOTE /\ ~NoClosingQuote) =>
          LET close == CHOOSE q \in (cur_pos + 1)..(Len(source) - 1) :
                          /\ source[q + 1] = QUOTE
                          /\ \A k \in (cur_pos + 1)..(q - 1) : source[k + 1] # QUOTE
          IN  /\ result'.kind = "token"
              /\ result'.tok = Token(Span(source, cur_pos + 1, close - 1), "STRING")
              /\ cur_pos' = close + 1 ]_vars

\* the empty string "" has been returned as a STRING with no text, and the
\* call after it has started at the character after the closing quote
C16_Witness ==
    /\ source = <<QUOTE, QUOTE, "a">>
    /\ Len(tokens) = 2
    /\ tokens[1] = [text |-> <<>>, kind |-> "STRING", start |-> 0]
    /\ tokens[2] = [text |-> <<"a">>, kind |-> "IDENT", start |-> 2]

-----------------------------------------------------------------------------
(* C15 *)

\* the number of tokens returned so far that are no EOF
NonEOFCount == Cardinality({k \in DOMAIN tokens : tokens[k].kind # "EOF"})

\* C15: a call that returns a token other than EOF starts on a character of
\* the source and moves the cursor forward, so that the tokens other than
\* EOF are never more than the source has characters; and as calls go on,
\* either one fails with a lexing error or an EOF token is returned and a
\* call after it raises StopIteration.
C15_ScanningTerminates ==
    /\ [](NonEOFCount <= Len(source))
    /\ [][ (result'.kind = "token" /\ result'.tok.kind # "EOF") =>
              /\ cur_pos < Len(source)
              /\ cur_pos' > cur_pos ]_vars
    /\ <>(\/ result.kind = "ValueError"
          \/ "EOF" \in KindsSoFar /\ result.kind = "StopIteration")

\* the source a=1 has lexed without error: three tokens for three
\* characters, then EOF, then StopIteration
C15_Witness ==
    /\ source = <<"a", "=", "1">>
    /\ KindsInOrder = <<"IDENT", "EQ", "NUMBER", "EOF">>
    /\ result.kind = "StopIteration"

-----------------------------------------------------------------------------
(* C17 *)

\* C17: a dispatching call at a carriage return that a line feed follows
\* (a CRLF line ending, which whitespace removal has kept) raises no error
\* and returns a NEWLINE token.
C17_CRLFIsNewline ==
    [][ (Dispatches /\ Cur = CR /\ Lookahead = LF) =>
          /\ result'.kind = "token"
          /\ result'.tok.kind = "NEWLINE" ]_vars

-----------------------------------------------------------------------------
(* C18 *)

\* the outcome is the exhausted iterator or the unrecognized-character error
FailsInPlace(r) ==
    \/ r.kind = "StopIteration"
    \/ r.kind = "ValueError" /\ r.msg = "Lexing Error! Character not recognized"

\* C18: a call that raises StopIteration or the unrecognized-character error
\* leaves the source, the cursor and the at-end flag as they were, the error
\* names the character under the cursor, and the call after such a failure
\* has the same outcome.
C18_FailedCallLeavesState ==
    [][ /\ FailsInPlace(result') =>
              /\ source' = source
              /\ cur_pos' = cur_pos
              /\ at_end' = at_end
              /\ next_char' = next_char
              /\ tokens' = tokens
              /\ result'.kind = "StopIteration" => at_end
              /\ result'.kind = "ValueError" =>
                    /\ ~at_end
                    /\ result'.char = Cur
                    /\ result'.start = cur_pos
        /\ FailsInPlace(result) => result' = result ]_vars

\* the source =( has failed at its second character, after one token
C18_Witness ==
    /\ source = <<"=", "(">>
    /\ KindsInOrder = <<"EQ">>
    /\ result.kind = "ValueError"
    /\ result.char = "("
    /\ cur_pos = 1
    /\ ~at_end

=============================================================================
